---- MODULE Spec2Model ----
(***************************************************************************)
(* GoCoaxAPI.get_phy_rates (custom_components/gocoax/gocoax_api.py) as a   *)
(* state machine: the CSRF page load, the local-info, net-info and FMR     *)
(* requests, the per-cell FMR decode with its word cursor and alignment    *)
(* flag, and the returned structure; and the poll cycle of the sensor      *)
(* platform (custom_components/gocoax/sensor.py): _fetch_data, the         *)
(* coordinator's data and the sensors' native_value.                       *)
(*                                                                         *)
(* A register word is the hex string the device sends: a sequence of hex   *)
(* digit values 0..15 (BadDigit stands for a character that is no hex      *)
(* digit).  int(s, 16) is IntFromHex.  TLC integers are 32-bit signed, so  *)
(* the parsed value is kept as two limbs [hi, lo] with value               *)
(* hi * 65536 + lo, and every shift-and-mask of the source is computed on  *)
(* the limbs.  Python lists are functions over 0..n-1 or sequences read    *)
(* with At(s, k) == s[k + 1].                                              *)
(***************************************************************************)
EXTENDS Integers, Sequences, FiniteSets, TLC

(* ------------------------------ bounds -------------------------------- *)
\* length of an untruncated FMR dump as the device holds it
MaxFmrLen == 15
\* number of poll cycles of the coordinator that are followed
MaxCycles == 3

(* ------------------------- program constants -------------------------- *)
MAX_NUM_NODES == 16
LDPC_LEN_100MHZ == 3900
LDPC_LEN_50MHZ == 1200
FFT_LEN_100MHZ == 512
FFT_LEN_50MHZ == 256

(* --------------------------- hex conversion --------------------------- *)
BadDigit == 16

\* the device's side: a 32-bit register value given as limbs, printed as
\* eight hex digits
Hex4(n) ==
  << (n \div 4096) % 16, (n \div 256) % 16, (n \div 16) % 16, n % 16 >>

Hex8(hi, lo) == Hex4(hi) \o Hex4(lo)

\* int(s, 16) accepts the string iff it is non-empty and all hex digits
HexValid(s) == Len(s) > 0 /\ \A k \in 1..Len(s) : s[k] < BadDigit

RECURSIVE HexFold(_, _, _)
HexFold(s, k, acc) ==
  IF k > Len(s) THEN acc
  ELSE LET t == acc.lo * 16 + s[k]
       IN  HexFold(s, k + 1, [hi |-> acc.hi * 16 + (t \div 65536), lo |-> t % 65536])

IntFromHex(s) == HexFold(s, 1, [hi |-> 0, lo |-> 0])

\* Python list read s[k], 0-based; InRange is the bound check behind IndexError
InRange(s, k) == k >= 0 /\ k < Len(s)
At(s, k) == s[k + 1]

\* the low four bits in place of the low eight
LowByte_Nibble(v) == v.lo % 16

\* int(word, 16) & 0xFF
LowByte(v) == v.lo % 256

\* the mask read from its most significant bit down
BitIsSet_Reversed(v, n) == (v.lo \div (2 ^ (15 - n))) % 2 = 1

\* nodeBitMask & (1 << node_id), node_id < 16
BitIsSet(v, n) == (v.lo \div (2 ^ n)) % 2 = 1

(* ------------------------- bit-field extraction ----------------------- *)
\* MoCA 2.x, aligned: gocoax_api.py 399-404
Gap2xAlignedN(v) == (v.hi \div 256) % 256
Gap2xAlignedVL(v) == v.hi % 256
Ofdm2xAlignedN(v) == v.lo
Ofdm2xAlignedVL(v2) == v2.hi % 65536
\* MoCA 2.x, not aligned: gocoax_api.py 407-412
Gap2xUnalignedN(v) == (v.lo \div 256) % 256
Gap2xUnalignedVL(v) == v.lo % 256
\* the half-word taken as a signed 16-bit value
Ofdm2xUnalignedN_Signed(v2) ==
  IF v2.hi % 65536 >= 32768 THEN (v2.hi % 65536) - 65536 ELSE v2.hi % 65536
Ofdm2xUnalignedN(v2) == v2.hi % 65536
Ofdm2xUnalignedVL(v2) == v2.lo
\* MoCA 1.x: gocoax_api.py 418-424
\* the gap taken from four bits
Gap1xAligned_FourBits(v) == (v.hi \div 2048) % 16
Gap1xAligned(v) == (v.hi \div 2048) % 32
Ofdm1xAligned(v) == v.hi % 2048
Gap1xUnaligned(v) == (v.lo \div 2048) % 32
Ofdm1xUnaligned(v) == v.lo % 2048

(* ----------------------------- rate formulas -------------------------- *)
Min(a, b) == IF a < b THEN a ELSE b

Den100(gap) == (FFT_LEN_100MHZ + ((gap + 10) * 2)) * 46
Den50(gap) == (FFT_LEN_50MHZ + (gap * 2 + 10)) * 26

\* gocoax_api.py 430-437
RateVl(gapVL, ofdmVL) ==
  IF gapVL = 0 THEN 0 ELSE (LDPC_LEN_100MHZ * ofdmVL) \div Den100(gapVL)

\* the 50 MHz branch taken for every 2.x version, not for 0x20 alone
RateN_Any2x(gapN, ofdmN, gapVL, ver) ==
  IF gapN = 0 THEN 0
  ELSE IF gapVL = 0 /\ ver >= 32 THEN (LDPC_LEN_50MHZ * ofdmN) \div Den50(gapN)
  ELSE (LDPC_LEN_100MHZ * ofdmN) \div Den100(gapN)

\* the zero-gap test left out
RateN_NoZeroGap(gapN, ofdmN, gapVL, ver) ==
  IF gapVL = 0 /\ ver = 32 THEN (LDPC_LEN_50MHZ * ofdmN) \div Den50(gapN)
  ELSE (LDPC_LEN_100MHZ * ofdmN) \div Den100(gapN)

\* gocoax_api.py 439-454
RateN(gapN, ofdmN, gapVL, ver) ==
  IF gapN = 0 THEN 0
  ELSE IF gapVL = 0 /\ ver = 32 THEN (LDPC_LEN_50MHZ * ofdmN) \div Den50(gapN)
  ELSE (LDPC_LEN_100MHZ * ofdmN) \div Den100(gapN)

\* the diagonal rate given the zero-gap shortcut of the primary rate
GcdRate_ZeroGap(nodeVer, gapN, ofdmN, old) ==
  IF gapN = 0 THEN 0
  ELSE IF (nodeVer \div 16) % 16 = 1 THEN (LDPC_LEN_50MHZ * ofdmN) \div Den50(gapN)
  ELSE IF (nodeVer \div 16) % 16 = 2 THEN (LDPC_LEN_100MHZ * ofdmN) \div Den100(gapN)
  ELSE old

\* gocoax_api.py 458-475: the value written to rateGcd on the diagonal, or
\* the previous value when the version nibble is neither 0x10 nor 0x20
GcdRate(nodeVer, gapN, ofdmN, old) ==
  IF (nodeVer \div 16) % 16 = 1 THEN (LDPC_LEN_50MHZ * ofdmN) \div Den50(gapN)
  ELSE IF (nodeVer \div 16) % 16 = 2 THEN (LDPC_LEN_100MHZ * ofdmN) \div Den100(gapN)
  ELSE old

\* gocoax_api.py 381: entryNodePayloadVer
EntryNodePayloadVer(rowVer, ncVer) == Min(rowVer, ncVer)

\* the 1.x rule applied whatever the NC version is
FmrPayloadVer_AlwaysMin(ncVer, entryVer, rowVer, colVer) == Min(entryVer, colVer)

\* gocoax_api.py 389-392: fmrPayloadVer
FmrPayloadVer(ncVer, entryVer, rowVer, colVer) ==
  IF ncVer < 32 THEN Min(entryVer, colVer) ELSE rowVer

\* every version from 0x20 to 0x25 read with the two-profile layout
Is2xLayout_Range(ver) == ver \in 32..37

\* gocoax_api.py 396: which layout the cell is read with
Is2xLayout(ver) == ver \in {32, 37}

(* ------------------------ one cell of the decode ---------------------- *)
\* int(fmr_data[k], 16): fails with IndexError past the end of the dump and
\* with ValueError on a string that is no hex number
WordReadable(fmr, k) == InRange(fmr, k) /\ HexValid(At(fmr, k))
WordAt(fmr, k) == IntFromHex(At(fmr, k))

\* the single-profile layout moving the cursor on every cell
ReadIndxStep1x_Always(alignmentFlag) == 1

\* gocoax_api.py 405, 413: readIndx += 1 after an aligned 2.x cell, += 2
\* after an unaligned one
ReadIndxStep2x(alignmentFlag) == IF alignmentFlag THEN 1 ELSE 2
\* gocoax_api.py 419-425: no move after an aligned 1.x cell, readIndx += 1
\* after an unaligned one
ReadIndxStep1x(alignmentFlag) == IF alignmentFlag THEN 0 ELSE 1

\* the cursor moved before the second word of the block is read
ReadIndxOnError_Moved(readIndx, step) == readIndx + step

\* gocoax_api.py 399-413, 418: every readIndx += stands after the reads of
\* its branch, so a read that raises leaves readIndx as it was
ReadIndxOnError(readIndx, step) == readIndx

\* gocoax_api.py 396-425, the body of the try block up to the flip of the
\* alignment flag.  old holds the locals gapNper, gapVLper, ofdmbNper,
\* ofdmbVLper as the previous cell left them; a failing read leaves the
\* locals assigned before it and nothing else.
DecodeFields(fmr, readIndx, alignmentFlag, ver, old) ==
  IF Is2xLayout(ver) THEN
    IF alignmentFlag THEN
      IF ~WordReadable(fmr, readIndx) THEN
        [ok |-> FALSE, gapN |-> old.gapN, gapVL |-> old.gapVL,
         ofdmN |-> old.ofdmN, ofdmVL |-> old.ofdmVL, readIndx |-> readIndx]
      ELSE LET val1 == WordAt(fmr, readIndx) IN
        IF ~WordReadable(fmr, readIndx + 1) THEN
          [ok |-> FALSE, gapN |-> Gap2xAlignedN(val1), gapVL |-> Gap2xAlignedVL(val1),
           ofdmN |-> Ofdm2xAlignedN(val1), ofdmVL |-> old.ofdmVL,
           readIndx |-> ReadIndxOnError(readIndx, ReadIndxStep2x(alignmentFlag))]
        ELSE
          [ok |-> TRUE, gapN |-> Gap2xAlignedN(val1), gapVL |-> Gap2xAlignedVL(val1),
           ofdmN |-> Ofdm2xAlignedN(val1),
           ofdmVL |-> Ofdm2xAlignedVL(WordAt(fmr, readIndx + 1)),
           readIndx |-> readIndx + ReadIndxStep2x(alignmentFlag)]
    ELSE
      IF ~WordReadable(fmr, readIndx) THEN
        [ok |-> FALSE, gapN |-> old.gapN, gapVL |-> old.gapVL,
         ofdmN |-> old.ofdmN, ofdmVL |-> old.ofdmVL, readIndx |-> readIndx]
      ELSE LET val1 == WordAt(fmr, readIndx) IN
        IF ~WordReadable(fmr, readIndx + 1) THEN
          [ok |-> FALSE, gapN |-> Gap2xUnalignedN(val1), gapVL |-> Gap2xUnalignedVL(val1),
           ofdmN |-> old.ofdmN, ofdmVL |-> old.ofdmVL,
           readIndx |-> ReadIndxOnError(readIndx, ReadIndxStep2x(alignmentFlag))]
        ELSE
          [ok |-> TRUE, gapN |-> Gap2xUnalignedN(val1), gapVL |-> Gap2xUnalignedVL(val1),
           ofdmN |-> Ofdm2xUnalignedN(WordAt(fmr, readIndx + 1)),
           ofdmVL |-> Ofdm2xUnalignedVL(WordAt(fmr, readIndx + 1)),
           readIndx |-> readIndx + ReadIndxStep2x(alignmentFlag)]
  ELSE
    IF ~WordReadable(fmr, readIndx) THEN
      [ok |-> FALSE, gapN |-> old.gapN, gapVL |-> 0,
       ofdmN |-> old.ofdmN, ofdmVL |-> 0, readIndx |-> readIndx]
    ELSE LET val == WordAt(fmr, readIndx) IN
      IF alignmentFlag THEN
        [ok |-> TRUE, gapN |-> Gap1xAligned(val), gapVL |-> 0,
         ofdmN |-> Ofdm1xAligned(val), ofdmVL |-> 0,
         readIndx |-> readIndx + ReadIndxStep1x(alignmentFlag)]
      ELSE
        [ok |-> TRUE, gapN |-> Gap1xUnaligned(val), gapVL |-> 0,
         ofdmN |-> Ofdm1xUnaligned(val), ofdmVL |-> 0,
         readIndx |-> readIndx + ReadIndxStep1x(alignmentFlag)]

\* the flag flipped in the except branch too
NextAlignment_AlwaysFlip(alignmentFlag, ok) == ~alignmentFlag

\* gocoax_api.py 427: the flag is flipped after a successful read only; the
\* except branch (476-480) is entered before line 427 runs
NextAlignment(alignmentFlag, ok) == IF ok THEN ~alignmentFlag ELSE alignmentFlag

(* ------------------------- what the device sends ---------------------- *)
\* node ids used by the sampled networks
ActiveMaskSamples == {0, 8, 9, 32777}        \* {}, {3}, {0,3}, {0,3,15}
NcNodeSamples == {3, 5, 16}
VersionSamples == {16, 32, 34, 37, 48}       \* 0x10 0x20 0x22 0x25 0x30
LocalInfoLenSamples == {0, 12, 13}
FmrLenSamples == {11, 12, 13, MaxFmrLen}
Images == {1, 2}

Word0 == Hex8(0, 0)

\* a local-info dump of len words: word 1 carries the NC node id in its low
\* byte, word 12 the active-node bitmask
LocalInfoDump(len, nc, mask) ==
  [k \in 1..len |-> IF k = 2 THEN Hex8(0, 512 + nc)
                    ELSE IF k = 13 THEN Hex8(0, mask)
                    ELSE Word0]

\* a net-info dump: word 4 carries the node's MoCA version in its low byte
NetInfoDump(len, ver) ==
  [k \in 1..len |-> IF k = 5 THEN Hex8(0, 768 + ver) ELSE Word0]

\* the words from index 10 on of each node's FMR register image (they repeat
\* every five words), for two network images
FmrTail(image, node) ==
  IF image = 1 THEN
    IF node = 0 THEN
      << Hex8(1280, 500), Hex8(500, 1283), Hex8(300, 200),
         Hex8(35335, 65535), Hex8(65535, 0) >>
    ELSE IF node = 3 THEN
      << Hex8(10740, 6444), Hex8(65535, 65535), Hex8(0, 0),
         Hex8(515, 100), Hex8(100, 0) >>
    ELSE
      << Hex8(512, 300), Hex8(0, 2817), Hex8(400, 1),
         Hex8(4097, 800), Hex8(1, 0) >>
  ELSE
    IF node = 0 THEN
      << Hex8(512, 300), Hex8(0, 1283), Hex8(500, 200),
         Hex8(3, 500), Hex8(256, 0) >>
    ELSE IF node = 3 THEN
      << Hex8(0, 500), Hex8(700, 0), Hex8(40000, 900),
         Hex8(32768, 1), Hex8(0, 1) >>
    ELSE
      << Hex8(1285, 500), << 0, BadDigit >>, Hex8(300, 200),
         Hex8(2049, 2049), Hex8(7, 7) >>

FmrFull(image, node) ==
  CHOOSE full \in
    { [k \in 1..MaxFmrLen |-> IF k <= 10 THEN Word0 ELSE tail[((k - 11) % 5) + 1]] :
      tail \in {FmrTail(image, node)} } : TRUE

\* what one FMR request can return: the first len words of the image
FmrDump(image, node, len) == SubSeq(FmrFull(image, node), 1, len)

(* -------------------------------- state ------------------------------- *)
VARIABLES
  pc,               \* where get_phy_rates stands
  image,            \* the register image the network holds during the call
  exc,              \* the exception that ended the call, if one did
  result,           \* what the call returned
  reqLog,           \* the HTTP requests issued so far, in order
  csrf_token,       \* whether the session holds a csrf_token cookie
  LocalInfo,        \* the local-info dump once it is received
  rateNper, rateVlper, rateGcd, netInfo, fmrInfo, nodeId,
  nodeBitMask, ncNodeID, ncMocaVer,
  node_id,          \* loop variable of step 2 (346-358)
  fmr_k,            \* position in nodeId of the loop of step 3 (364-377)
  id_index, jd_index,
  entryNodePayloadVer, mocaNodeVer, fmrPayloadVer,
  readIndx, alignmentFlag,
  gapNper, gapVLper, ofdmbNper, ofdmbVLper,
  cellLog           \* history: what each decoded cell read, how it ended, and
                    \* the cursor before (readIndx, alignmentFlag) and after it
                    \* (nextIndx, nextFlag)

\* the poll cycle of the sensor platform (sensor.py)
VARIABLES
  poll_pc,              \* "idle" between cycles, "fetched" when _fetch_data has ended
  cycle,                \* number of poll cycles started
  fetch_result,         \* what the last _fetch_data returned or raised
  coord_data,           \* coordinator.data
  last_update_success,  \* coordinator.last_update_success
  native_value,         \* what the last read of a sensor's native_value returned,
                        \* and in which cycle and at which poll_pc it was read
  last_good             \* history: the dictionary of the last cycle that succeeded

VARIABLES
  flow_pc,        \* "start" before the first step, "form" while the form is shown,
                  \* "done" once the flow has created an entry or aborted
  submits,        \* number of times the form has been submitted
  user_input,     \* the argument of the last async_step_user call
  device,         \* how the device answered during that call
  validation,     \* what _async_validate_connection did in that call
  connection_ok,  \* the local connection_ok when the call ended
  errors,         \* the local errors dictionary when the call ended
  flow_result,    \* what the call returned
  entries,        \* the unique ids of the entries already configured
  flowLog         \* history: the results returned so far, in order

flowVars == << flow_pc, submits, user_input, device, validation, connection_ok,
               errors, flow_result, entries, flowLog >>

pollVars == << poll_pc, cycle, fetch_result, coord_data, last_update_success,
               native_value, last_good >>

apiVars == << pc, image, exc, result, reqLog, csrf_token, LocalInfo, rateNper, rateVlper, rateGcd,
           netInfo, fmrInfo, nodeId, nodeBitMask, ncNodeID, ncMocaVer,
           node_id, fmr_k, id_index, jd_index, entryNodePayloadVer,
           mocaNodeVer, fmrPayloadVer, readIndx, alignmentFlag,
           gapNper, gapVLper, ofdmbNper, ofdmbVLper, cellLog >>

vars == << apiVars, pollVars, flowVars >>

NodeRange == 0..(MAX_NUM_NODES - 1)
\* a list-or-None slot of netInfo / fmrInfo
None == [isNone |-> TRUE, data |-> << >>]
List(d) == [isNone |-> FALSE, data |-> d]
\* a grid one row and one column short
ZeroGrid_OffByOne ==
  [i \in 0..(MAX_NUM_NODES - 2) |-> [j \in 0..(MAX_NUM_NODES - 2) |-> 0]]

\* gocoax_api.py 334-336: the zero-filled result structures
ZeroGrid == [i \in NodeRange |-> [j \in NodeRange |-> 0]]
ZeroVector == [i \in NodeRange |-> 0]
NoExc == [type |-> "none", line |-> 0]
Unset == -1
NoResult == [kind |-> "pending", nodes |-> << >>, rates |-> << >>, gcd_rates |-> << >>]
ReturnedNone == [kind |-> "None", nodes |-> << >>, rates |-> << >>, gcd_rates |-> << >>]
Raise(type, line) == [type |-> type, line |-> line]
Request(method, endpoint, data) == [method |-> method, endpoint |-> endpoint, data |-> data]
ResponseKinds == {"ok", "http_error", "no_json"}

\* coordinator.data before the first refresh, and a dictionary
NoData == [has |-> FALSE, data |-> << >>]
Data(d) == [has |-> TRUE, data |-> d]
NoFetch == [kind |-> "none", data |-> << >>, cause |-> "none"]
NoValue == [reading |-> 0, key |-> "None"]

\* sensor.py 83-100: the coordinator as constructed
PollStart ==
  /\ poll_pc = "idle"
  /\ cycle = 0
  /\ fetch_result = NoFetch
  /\ coord_data = NoData
  /\ last_update_success = TRUE
  /\ native_value = [key |-> "None", value |-> NoValue, cycle |-> 0, at |-> "idle"]
  /\ last_good = NoData

\* user_input None, an errors dictionary without a key, no call made yet
NoInput == [given |-> FALSE, host |-> "none"]
Input(host) == [given |-> TRUE, host |-> host]
NoKey == "(absent)"
NoErrors == [base |-> NoKey]
NoResultYet == [type |-> "none", errors |-> NoErrors, host |-> "none"]
NotCalled == [called |-> FALSE, exc |-> NoExc, value |-> FALSE]

\* config_flow.py 12-16: a flow as constructed, before its first step
FlowStart ==
  /\ flow_pc = "start"
  /\ submits = 0
  /\ user_input = NoInput
  /\ device = "none"
  /\ validation = NotCalled
  /\ connection_ok = FALSE
  /\ errors = NoErrors
  /\ flow_result = NoResultYet
  /\ flowLog = << >>

\* gocoax_api.py 302-339: get_phy_rates entered
ApiStart ==
  /\ pc = "get_page"
  /\ exc = NoExc
  /\ result = NoResult
  /\ reqLog = << >>
  /\ csrf_token = FALSE
  /\ LocalInfo = None
  /\ rateNper = ZeroGrid
  /\ rateVlper = ZeroGrid
  /\ rateGcd = ZeroVector
  /\ netInfo = [n \in NodeRange |-> None]
  /\ fmrInfo = [n \in NodeRange |-> None]
  /\ nodeId = << >>
  /\ nodeBitMask = [hi |-> 0, lo |-> 0]
  /\ ncNodeID = Unset
  /\ ncMocaVer = Unset
  /\ node_id = 0
  /\ fmr_k = 0
  /\ id_index = 0
  /\ jd_index = 0
  /\ entryNodePayloadVer = Unset
  /\ mocaNodeVer = Unset
  /\ fmrPayloadVer = Unset
  /\ readIndx = Unset
  /\ alignmentFlag = TRUE
  /\ gapNper = Unset
  /\ gapVLper = Unset
  /\ ofdmbNper = Unset
  /\ ofdmbVLper = Unset
  /\ cellLog = << >>

Init == image \in Images /\ ApiStart /\ PollStart /\ FlowStart /\ entries = {}

(* ------------------------------- actions ------------------------------ *)
\* the version byte of an active node: int(netInfo[n][4], 16) & 0xFF
NodeVersion(n) == LowByte(IntFromHex(At(netInfo[n].data, 4)))

\* the token test skipped
HasCsrfToken_Always(cookie) == TRUE

\* gocoax_api.py 67-68, 328: get_csrf_token() is truthy iff the cookie is there
HasCsrfToken(cookie) == cookie

\* gocoax_api.py 318-339: load phyRates.html, give up without a CSRF cookie,
\* else create the result structures
GetPage ==
  /\ pc = "get_page"
  /\ reqLog' = Append(reqLog, Request("GET", "phyRates", << >>))
  /\ \E status \in {"ok", "http_error"}, token \in BOOLEAN :
       /\ csrf_token' = token
       /\ IF status = "http_error" THEN
              /\ pc' = "raised" /\ exc' = Raise("HTTPError", 326)
              /\ UNCHANGED << result, rateNper, rateVlper, rateGcd, netInfo, fmrInfo, nodeId >>
            ELSE IF ~HasCsrfToken(token) THEN
              /\ pc' = "returned" /\ result' = ReturnedNone
              /\ UNCHANGED << exc, rateNper, rateVlper, rateGcd, netInfo, fmrInfo, nodeId >>
            ELSE
              /\ pc' = "local_info"
              /\ rateNper' = ZeroGrid /\ rateVlper' = ZeroGrid /\ rateGcd' = ZeroVector
              /\ netInfo' = [n \in NodeRange |-> None]
              /\ fmrInfo' = [n \in NodeRange |-> None]
              /\ nodeId' = << >>
              /\ UNCHANGED << exc, result >>
  /\ UNCHANGED << image, LocalInfo, nodeBitMask, ncNodeID, ncMocaVer, node_id,
                  fmr_k, id_index, jd_index, entryNodePayloadVer, mocaNodeVer,
                  fmrPayloadVer, readIndx, alignmentFlag, gapNper, gapVLper,
                  ofdmbNper, ofdmbVLper, cellLog >>
  /\ UNCHANGED << pollVars, flowVars >>

\* gocoax_api.py 344-347: the line at which a read of the local-info dump
\* runs past its end (words 0, 11, 12 and 1 are read in this order), 0 if none
LocalInfoFault(dump) ==
  IF ~InRange(dump, 0) THEN 344
  ELSE IF ~InRange(dump, 11) THEN 345
  ELSE IF ~InRange(dump, 12) THEN 346
  ELSE 0

\* gocoax_api.py 342-347: the local-info request and the four reads of it
PostLocalInfo ==
  /\ pc = "local_info"
  /\ reqLog' = Append(reqLog, Request("POST", "localInfo", << >>))
  /\ \E kind \in ResponseKinds, len \in LocalInfoLenSamples,
        nc \in NcNodeSamples, mask \in ActiveMaskSamples :
       LET dump == LocalInfoDump(len, nc, mask) IN
       IF kind = "http_error" THEN
         /\ pc' = "raised" /\ exc' = Raise("HTTPError", 112)
         /\ UNCHANGED << LocalInfo, nodeBitMask, ncNodeID, node_id >>
       ELSE IF kind = "no_json" THEN
         /\ pc' = "raised" /\ exc' = Raise("KeyError", 343)
         /\ UNCHANGED << LocalInfo, nodeBitMask, ncNodeID, node_id >>
       ELSE
         /\ LocalInfo' = List(dump)
         /\ IF LocalInfoFault(dump) # 0 THEN
              /\ pc' = "raised" /\ exc' = Raise("IndexError", LocalInfoFault(dump))
              /\ UNCHANGED << nodeBitMask, ncNodeID, node_id >>
            ELSE
              /\ nodeBitMask' = IntFromHex(At(dump, 12))
              /\ ncNodeID' = LowByte(IntFromHex(At(dump, 1)))
              /\ node_id' = 0
              /\ pc' = "net_info"
              /\ UNCHANGED exc
  /\ UNCHANGED << image, csrf_token, result, rateNper, rateVlper, rateGcd, netInfo, fmrInfo,
                  nodeId, ncMocaVer, fmr_k, id_index, jd_index,
                  entryNodePayloadVer, mocaNodeVer, fmrPayloadVer, readIndx,
                  alignmentFlag, gapNper, gapVLper, ofdmbNper, ofdmbVLper, cellLog >>
  /\ UNCHANGED << pollVars, flowVars >>

\* the loop of step 2 left after its first iteration
AfterNetInfo_Early(n) == "nc_ver"

\* where the loop of step 2 goes after the iteration for node n
AfterNetInfo(n) == IF n + 1 < MAX_NUM_NODES THEN "net_info" ELSE "nc_ver"

\* gocoax_api.py 350-356: one iteration of step 2 for an active node
NetInfoActive ==
  /\ pc = "net_info"
  /\ node_id < MAX_NUM_NODES
  /\ BitIsSet(nodeBitMask, node_id)
  /\ reqLog' = Append(reqLog, Request("POST", "netInfo", << node_id >>))
  /\ \E kind \in ResponseKinds, len \in {4, 5}, ver \in VersionSamples :
       IF kind = "http_error" THEN
         /\ pc' = "raised" /\ exc' = Raise("HTTPError", 112)
         /\ UNCHANGED << netInfo, nodeId, node_id >>
       ELSE IF kind = "no_json" THEN
         /\ pc' = "raised" /\ exc' = Raise("KeyError", 355)
         /\ UNCHANGED << netInfo, nodeId, node_id >>
       ELSE
         /\ netInfo' = [netInfo EXCEPT ![node_id] = List(NetInfoDump(len, ver))]
         /\ nodeId' = Append(nodeId, node_id)
         /\ node_id' = node_id + 1
         /\ pc' = AfterNetInfo(node_id)
         /\ UNCHANGED exc
  /\ UNCHANGED << image, csrf_token, LocalInfo, result, rateNper, rateVlper, rateGcd, fmrInfo,
                  nodeBitMask, ncNodeID, ncMocaVer, fmr_k, id_index, jd_index,
                  entryNodePayloadVer, mocaNodeVer, fmrPayloadVer, readIndx,
                  alignmentFlag, gapNper, gapVLper, ofdmbNper, ofdmbVLper, cellLog >>
  /\ UNCHANGED << pollVars, flowVars >>

\* gocoax_api.py 350-352, 357-358: one iteration of step 2 for an inactive node
NetInfoInactive ==
  /\ pc = "net_info"
  /\ node_id < MAX_NUM_NODES
  /\ ~BitIsSet(nodeBitMask, node_id)
  /\ netInfo' = [netInfo EXCEPT ![node_id] = None]
  /\ node_id' = node_id + 1
  /\ pc' = AfterNetInfo(node_id)
  /\ UNCHANGED << image, exc, result, reqLog, csrf_token, LocalInfo, rateNper, rateVlper, rateGcd,
                  fmrInfo, nodeId, nodeBitMask, ncNodeID, ncMocaVer, fmr_k,
                  id_index, jd_index, entryNodePayloadVer, mocaNodeVer,
                  fmrPayloadVer, readIndx, alignmentFlag, gapNper, gapVLper,
                  ofdmbNper, ofdmbVLper, cellLog >>
  /\ UNCHANGED << pollVars, flowVars >>

\* gocoax_api.py 361: ncMocaVer = int(netInfo[ncNodeID][4], 16) & 0xFF
NcVersion ==
  /\ pc = "nc_ver"
  /\ IF ncNodeID \notin NodeRange THEN
       /\ pc' = "raised" /\ exc' = Raise("IndexError", 361)
       /\ UNCHANGED << ncMocaVer, fmr_k >>
     ELSE IF netInfo[ncNodeID].isNone THEN
       /\ pc' = "raised" /\ exc' = Raise("TypeError", 361)
       /\ UNCHANGED << ncMocaVer, fmr_k >>
     ELSE IF ~InRange(netInfo[ncNodeID].data, 4) THEN
       /\ pc' = "raised" /\ exc' = Raise("IndexError", 361)
       /\ UNCHANGED << ncMocaVer, fmr_k >>
     ELSE
       /\ ncMocaVer' = NodeVersion(ncNodeID)
       /\ fmr_k' = 0
       /\ pc' = IF Len(nodeId) > 0 THEN "fmr_info" ELSE "row"
       /\ UNCHANGED exc
  /\ UNCHANGED << image, result, reqLog, csrf_token, LocalInfo, rateNper, rateVlper, rateGcd, netInfo,
                  fmrInfo, nodeId, nodeBitMask, ncNodeID, node_id, id_index,
                  jd_index, entryNodePayloadVer, mocaNodeVer, fmrPayloadVer,
                  readIndx, alignmentFlag, gapNper, gapVLper, ofdmbNper,
                  ofdmbVLper, cellLog >>
  /\ UNCHANGED << pollVars, flowVars >>

\* the format version taken from the node's version alone
FinalVer_NodeOnly(ncVer, nodeVer) == IF nodeVer < 32 THEN 1 ELSE 2

\* gocoax_api.py 366-367: the format version asked of the device
FinalVer(ncVer, nodeVer) == IF Min(ncVer, nodeVer) < 32 THEN 1 ELSE 2

\* gocoax_api.py 364-377: one iteration of step 3
FmrStep ==
  /\ pc = "fmr_info"
  /\ fmr_k < Len(nodeId)
  /\ LET node == nodeId[fmr_k + 1] IN
     IF ~InRange(netInfo[node].data, 4) THEN
       /\ pc' = "raised" /\ exc' = Raise("IndexError", 365)
       /\ UNCHANGED << reqLog, fmrInfo, fmr_k >>
     ELSE
       /\ reqLog' = Append(reqLog, Request("POST", "fmrInfo",
                       << 2 ^ node, FinalVer(ncMocaVer, NodeVersion(node)) >>))
       /\ \E kind \in ResponseKinds, len \in FmrLenSamples :
            IF kind = "http_error" THEN
              /\ pc' = "raised" /\ exc' = Raise("HTTPError", 112)
              /\ UNCHANGED << fmrInfo, fmr_k >>
            ELSE IF kind = "no_json" THEN
              /\ pc' = "raised" /\ exc' = Raise("KeyError", 377)
              /\ UNCHANGED << fmrInfo, fmr_k >>
            ELSE
              /\ fmrInfo' = [fmrInfo EXCEPT ![node] = List(FmrDump(image, node, len))]
              /\ fmr_k' = fmr_k + 1
              /\ pc' = IF fmr_k + 1 < Len(nodeId) THEN "fmr_info" ELSE "row"
              /\ UNCHANGED exc
  /\ UNCHANGED << image, csrf_token, LocalInfo, result, rateNper, rateVlper, rateGcd, netInfo, nodeId,
                  nodeBitMask, ncNodeID, ncMocaVer, node_id, id_index, jd_index,
                  entryNodePayloadVer, mocaNodeVer, fmrPayloadVer, readIndx,
                  alignmentFlag, gapNper, gapVLper, ofdmbNper, ofdmbVLper, cellLog >>
  /\ UNCHANGED << pollVars, flowVars >>

\* the flag left as the previous row ended with it
RowStartAlignment_Kept == alignmentFlag

\* gocoax_api.py 382-383: the cursor a row starts with
RowStartIndex == 10
RowStartAlignment == TRUE

\* gocoax_api.py 380-385: the head of the outer loop of step 4
RowStart ==
  /\ pc = "row"
  /\ id_index < Len(nodeId)
  /\ LET id_val == nodeId[id_index + 1] IN
       /\ entryNodePayloadVer' = EntryNodePayloadVer(NodeVersion(id_val), ncMocaVer)
       /\ mocaNodeVer' = NodeVersion(id_val)
  /\ readIndx' = RowStartIndex
  /\ alignmentFlag' = RowStartAlignment
  /\ rateGcd' = [rateGcd EXCEPT ![id_index] = 0]
  /\ jd_index' = 0
  /\ pc' = "cell"
  /\ UNCHANGED << image, exc, result, reqLog, csrf_token, LocalInfo, rateNper, rateVlper, netInfo,
                  fmrInfo, nodeId, nodeBitMask, ncNodeID, ncMocaVer, node_id,
                  fmr_k, id_index, fmrPayloadVer, gapNper, gapVLper, ofdmbNper,
                  ofdmbVLper, cellLog >>
  /\ UNCHANGED << pollVars, flowVars >>

\* a handler that gives up the row: every cell of the row is zeroed
CellAfterError_ZeroRow(rates, i, j) == [rates EXCEPT ![i] = [c \in NodeRange |-> 0]]

\* gocoax_api.py 476-480: the except branch zeroes the cell in both grids
CellAfterError(rates, i, j) == [rates EXCEPT ![i][j] = 0]

\* gocoax_api.py 387, 476-480: the inner loop goes on to the next column
\* whether the cell was decoded or the except branch ran
NextColumn(j, ok) == j + 1

\* the grids indexed by node id instead of by position in the node list
RateIndex_ByNode(index, val) == val

\* gocoax_api.py 380, 387, 430-480: the grids are indexed by the positions
\* id_index, jd_index that enumerate(nodeId) yields, not by the node ids
RateIndex(index, val) == index

\* gocoax_api.py 457: the diagonal test
IsDiagonal(id_val, jd_val) == id_val = jd_val

\* gocoax_api.py 387-480: one iteration of the inner loop of step 4
DecodeCell ==
  /\ pc = "cell"
  /\ jd_index < Len(nodeId)
  /\ LET id_val == nodeId[id_index + 1]
         jd_val == nodeId[jd_index + 1]
         node_jd_mocaNodeVer == NodeVersion(jd_val)
         fmr_data == fmrInfo[id_val].data
         old == [gapN |-> gapNper, gapVL |-> gapVLper,
                 ofdmN |-> ofdmbNper, ofdmVL |-> ofdmbVLper]
     IN
     \E ver \in {FmrPayloadVer(ncMocaVer, entryNodePayloadVer, mocaNodeVer,
                               node_jd_mocaNodeVer)} :
     \E d \in {DecodeFields(fmr_data, readIndx, alignmentFlag, ver, old)} :
     \E nextj \in {NextColumn(jd_index, d.ok)} :
       /\ fmrPayloadVer' = ver
       /\ gapNper' = d.gapN /\ gapVLper' = d.gapVL
       /\ ofdmbNper' = d.ofdmN /\ ofdmbVLper' = d.ofdmVL
       /\ readIndx' = d.readIndx
       /\ alignmentFlag' = NextAlignment(alignmentFlag, d.ok)
       /\ IF d.ok THEN
            /\ rateVlper' = [rateVlper EXCEPT
                 ![RateIndex(id_index, id_val)][RateIndex(jd_index, jd_val)] =
                   RateVl(d.gapVL, d.ofdmVL)]
            /\ rateNper' = [rateNper EXCEPT
                 ![RateIndex(id_index, id_val)][RateIndex(jd_index, jd_val)] =
                   RateN(d.gapN, d.ofdmN, d.gapVL, ver)]
            /\ rateGcd' = IF IsDiagonal(id_val, jd_val)
                          THEN [rateGcd EXCEPT ![id_index] =
                                  GcdRate(mocaNodeVer, d.gapN, d.ofdmN, @)]
                          ELSE rateGcd
          ELSE
            /\ rateNper' = CellAfterError(rateNper, RateIndex(id_index, id_val),
                                          RateIndex(jd_index, jd_val))
            /\ rateVlper' = CellAfterError(rateVlper, RateIndex(id_index, id_val),
                                           RateIndex(jd_index, jd_val))
            /\ UNCHANGED rateGcd
       /\ cellLog' = Append(cellLog,
            [i |-> id_index, j |-> jd_index, row |-> id_val, col |-> jd_val,
             ok |-> d.ok, ver |-> ver, rowVer |-> mocaNodeVer,
             colVer |-> node_jd_mocaNodeVer,
             readIndx |-> readIndx, alignmentFlag |-> alignmentFlag,
             nextIndx |-> d.readIndx,
             nextFlag |-> NextAlignment(alignmentFlag, d.ok),
             gapN |-> d.gapN, gapVL |-> d.gapVL,
             ofdmN |-> d.ofdmN, ofdmVL |-> d.ofdmVL])
       /\ jd_index' = nextj
       /\ IF nextj < Len(nodeId)
          THEN pc' = "cell" /\ UNCHANGED id_index
          ELSE pc' = "row" /\ id_index' = id_index + 1
  /\ UNCHANGED << image, exc, result, reqLog, csrf_token, LocalInfo, netInfo, fmrInfo, nodeId,
                  nodeBitMask, ncNodeID, ncMocaVer, node_id, fmr_k,
                  entryNodePayloadVer, mocaNodeVer >>
  /\ UNCHANGED << pollVars, flowVars >>

\* gocoax_api.py 483-487: the returned dictionary
ReturnValue(nodes, rates, gcd) ==
  [kind |-> "dict", nodes |-> nodes, rates |-> rates, gcd_rates |-> gcd]

Return ==
  /\ pc = "row"
  /\ id_index >= Len(nodeId)
  /\ result' = ReturnValue(nodeId, rateNper, rateGcd)
  /\ pc' = "returned"
  /\ UNCHANGED << image, exc, reqLog, csrf_token, LocalInfo, rateNper, rateVlper, rateGcd, netInfo,
                  fmrInfo, nodeId, nodeBitMask, ncNodeID, ncMocaVer, node_id,
                  fmr_k, id_index, jd_index, entryNodePayloadVer, mocaNodeVer,
                  fmrPayloadVer, readIndx, alignmentFlag, gapNper, gapVLper,
                  ofdmbNper, ofdmbVLper, cellLog >>
  /\ UNCHANGED << pollVars, flowVars >>

Next ==
  \/ GetPage
  \/ PostLocalInfo
  \/ NetInfoActive
  \/ NetInfoInactive
  \/ NcVersion
  \/ FmrStep
  \/ RowStart
  \/ DecodeCell
  \/ Return

Spec == Init /\ [][Next]_vars

(* ------------------- the poll cycle of the sensor platform ------------ *)
\* sensor.py 59-74, 426-440: the keys of the processed dictionary
SensorKeys ==
  {"soc_version", "my_moca_version", "network_moca_version", "ip_address",
   "mac_address", "link_status", "lof", "eth_tx_good", "eth_tx_bad",
   "eth_tx_dropped", "eth_rx_good", "eth_rx_bad", "eth_rx_dropped"}

\* the device's registers differ from cycle to cycle
Readings == {1, 2}

\* how one run of retrieve_device_info and display_device_info can end:
\* where it stops and the exception raised there
FetchOutcomes ==
  { [stage |-> "devStatus", type |-> "HTTPError"],     \* sensor.py 270
    [stage |-> "csrf", type |-> "ValueError"],         \* sensor.py 274
    [stage |-> "post", type |-> "HTTPError"],          \* sensor.py 238
    [stage |-> "post", type |-> "ValueError"],         \* sensor.py 239, no JSON
    [stage |-> "post", type |-> "KeyError"],           \* sensor.py 280, no 'data'
    [stage |-> "myNodeId", type |-> "IndexError"],     \* sensor.py 281
    [stage |-> "display", type |-> "IndexError"],      \* sensor.py 369-423
    [stage |-> "display", type |-> "ValueError"],      \* sensor.py 369-423
    [stage |-> "done", type |-> "none"] }

\* sensor.py 426-440: the dictionary display_device_info builds from the
\* registers read in one cycle
Processed(reading) == [k \in SensorKeys |-> [reading |-> reading, key |-> k]]

\* the except branch returning what was gathered instead of raising
FetchResult_PartialOnError(outcome, reading) ==
  IF outcome.type = "none"
  THEN [kind |-> "dict", data |-> Processed(reading), cause |-> "none"]
  ELSE [kind |-> "dict",
        data |-> [k \in {"soc_version"} |-> [reading |-> reading, key |-> k]],
        cause |-> "none"]

\* sensor.py 106-122: _fetch_data returns the processed dictionary, or raises
\* UpdateFailed from whatever exception the two calls raised
FetchResult(outcome, reading) ==
  IF outcome.type = "none"
  THEN [kind |-> "dict", data |-> Processed(reading), cause |-> "none"]
  ELSE [kind |-> "UpdateFailed", data |-> << >>, cause |-> outcome.type]

\* sensor.py 102-122: one run of _async_update_data / _fetch_data
FetchData ==
  /\ poll_pc = "idle"
  /\ cycle < MaxCycles
  /\ \E outcome \in FetchOutcomes, reading \in Readings :
       /\ fetch_result' = FetchResult(outcome, reading)
       /\ last_good' = IF outcome.stage = "done" THEN Data(Processed(reading))
                        ELSE last_good
  /\ cycle' = cycle + 1
  /\ poll_pc' = "fetched"
  /\ UNCHANGED << coord_data, last_update_success, native_value >>
  /\ UNCHANGED << apiVars, flowVars >>

\* the coordinator taking the outcome of _async_update_data: a dictionary
\* replaces its data, UpdateFailed leaves the data as it is; either way the
\* next cycle is scheduled
CoordinatorRefresh ==
  /\ poll_pc = "fetched"
  /\ IF fetch_result.kind = "dict"
     THEN coord_data' = Data(fetch_result.data) /\ last_update_success' = TRUE
     ELSE UNCHANGED coord_data /\ last_update_success' = FALSE
  /\ poll_pc' = "idle"
  /\ UNCHANGED << cycle, fetch_result, native_value, last_good >>
  /\ UNCHANGED << apiVars, flowVars >>

\* sensor.py 143-146: None without data, else data.get(key)
SensorValue(data, key) ==
  IF ~data.has \/ DOMAIN data.data = {} THEN NoValue
  ELSE IF key \in DOMAIN data.data THEN data.data[key]
  ELSE NoValue

\* sensor.py 140-146: a read of the native_value property of one sensor
NativeValue ==
  /\ \E key \in SensorKeys :
       native_value' = [key |-> key, value |-> SensorValue(coord_data, key),
                        cycle |-> cycle, at |-> poll_pc]
  /\ UNCHANGED << poll_pc, cycle, fetch_result, coord_data, last_update_success,
                  last_good >>
  /\ UNCHANGED << apiVars, flowVars >>

PollNext ==
  \/ FetchData
  \/ CoordinatorRefresh
  \/ NativeValue

PollInit == image = 1 /\ ApiStart /\ PollStart /\ FlowStart /\ entries = {}

PollSpec == PollInit /\ [][PollNext]_vars

(* --------------- the field extraction applied to chosen words ---------- *)
\* half-words at the edges of every field of the four layouts
HalfSamples == {0, 1, 255, 256, 2047, 2048, 32768, 65535}
SecondHalfSamples == {0, 32768, 65535}

\* a dump of two words put where the dump of node 0 is kept
FieldInput ==
  /\ pc = "get_page"
  /\ \E hi \in HalfSamples, lo \in HalfSamples,
        hi2 \in SecondHalfSamples, lo2 \in SecondHalfSamples :
       fmrInfo' = [fmrInfo EXCEPT ![0] = List(<< Hex8(hi, lo), Hex8(hi2, lo2) >>)]
  /\ pc' = "field_input"
  /\ UNCHANGED << image, exc, result, reqLog, csrf_token, LocalInfo, rateNper, rateVlper,
                  rateGcd, netInfo, nodeId, nodeBitMask, ncNodeID, ncMocaVer, node_id,
                  fmr_k, id_index, jd_index, entryNodePayloadVer, mocaNodeVer,
                  fmrPayloadVer, readIndx, alignmentFlag, gapNper, gapVLper,
                  ofdmbNper, ofdmbVLper, cellLog >>
  /\ UNCHANGED << pollVars, flowVars >>

\* gocoax_api.py 395-427 applied once to that dump at word 0, with either
\* flag and an effective version of either layout
DecodeOne ==
  /\ pc = "field_input"
  /\ \E flag \in BOOLEAN, ver \in {16, 32, 34, 37} :
     \E d \in {DecodeFields(fmrInfo[0].data, 0, flag, ver,
                  [gapN |-> gapNper, gapVL |-> gapVLper,
                   ofdmN |-> ofdmbNper, ofdmVL |-> ofdmbVLper])} :
       /\ fmrPayloadVer' = ver
       /\ gapNper' = d.gapN /\ gapVLper' = d.gapVL
       /\ ofdmbNper' = d.ofdmN /\ ofdmbVLper' = d.ofdmVL
       /\ readIndx' = d.readIndx
       /\ alignmentFlag' = NextAlignment(flag, d.ok)
       /\ cellLog' = Append(cellLog,
            [i |-> 0, j |-> 0, row |-> 0, col |-> 0, ok |-> d.ok, ver |-> ver,
             rowVer |-> ver, colVer |-> ver, readIndx |-> 0, alignmentFlag |-> flag,
             nextIndx |-> d.readIndx, nextFlag |-> NextAlignment(flag, d.ok),
             gapN |-> d.gapN, gapVL |-> d.gapVL,
             ofdmN |-> d.ofdmN, ofdmVL |-> d.ofdmVL])
  /\ pc' = "field_done"
  /\ UNCHANGED << image, exc, result, reqLog, csrf_token, LocalInfo, rateNper, rateVlper,
                  rateGcd, netInfo, fmrInfo, nodeId, nodeBitMask, ncNodeID, ncMocaVer,
                  node_id, fmr_k, id_index, jd_index, entryNodePayloadVer, mocaNodeVer >>
  /\ UNCHANGED << pollVars, flowVars >>

FieldNext ==
  \/ FieldInput
  \/ DecodeOne

FieldSpec == PollInit /\ [][FieldNext]_vars

(* ------------------------------ the config flow ----------------------- *)
MaxSubmits == 4
Hosts == {"192.168.1.10", "192.168.1.11"}
DeviceStates == {"ok", "http_error", "unreachable"}
\* the hosts that may already have an entry when the flow starts
EntrySamples == {{}, {"192.168.1.10"}}

\* config_flow.py 1-12, 14, 77: the names bound in the module's namespace
\* when a step runs: the imports, the logger, the flow class and the
\* module's own validate_connection, which rebinds the imported one
ModuleGlobals ==
  {"logging", "vol", "config_entries", "HomeAssistant", "ConfigEntryNotReady",
   "DOMAIN", "CONF_HOST", "CONF_USERNAME", "CONF_PASSWORD", "validate_connection",
   "_LOGGER", "GoCoaxConfigFlow"}

Returned(v) == [called |-> TRUE, exc |-> NoExc, value |-> v]
Raised(type, line) == [called |-> TRUE, exc |-> Raise(type, line), value |-> FALSE]
HasRaised(v) == v.called /\ v.exc # NoExc

\* config_flow.py 77-89: validate_connection, as the call of line 72 resolves
\* it: the name GoCoaxAPI of line 80 is looked up in the module's namespace,
\* then the devStatus page is requested and its status checked
ValidateConnection(dev) ==
  IF "GoCoaxAPI" \notin ModuleGlobals THEN Raised("NameError", 80)
  ELSE IF dev = "unreachable" THEN Raised("ConnectionError", 85)
  ELSE IF dev = "http_error" THEN Raised("HTTPError", 86)
  ELSE Returned(TRUE)

\* config_flow.py 29-36: connection_ok and errors after the try statement
ConnectionOk(v) == IF HasRaised(v) THEN FALSE ELSE v.value
ErrorsAfterTry(v) == IF HasRaised(v) THEN [NoErrors EXCEPT !.base = "unknown"] ELSE NoErrors

\* config_flow.py 38-53: errors after the if statement
ErrorsAfterIf(ok, errs) == IF ok THEN errs ELSE [errs EXCEPT !.base = "cannot_connect"]

\* config_flow.py 38-63: what the step returns; the unique id is the host,
\* and the flow aborts when an entry with that id exists
StepResult(host, ok, errs, configured) ==
  IF ok
  THEN IF host \in configured
       THEN [type |-> "abort", errors |-> NoErrors, host |-> host]
       ELSE [type |-> "create_entry", errors |-> NoErrors, host |-> host]
  ELSE [type |-> "form", errors |-> ErrorsAfterIf(ok, errs), host |-> host]

\* config_flow.py 18-22, 56-67: async_step_user(None), the first step
ShowForm ==
  /\ flow_pc = "start"
  /\ flow_pc' = "form"
  /\ user_input' = NoInput
  /\ errors' = NoErrors
  /\ flow_result' = [type |-> "form", errors |-> NoErrors, host |-> "none"]
  /\ flowLog' = Append(flowLog, flow_result')
  /\ UNCHANGED << submits, device, validation, connection_ok, entries >>
  /\ UNCHANGED << apiVars, pollVars >>

\* config_flow.py 18-67: async_step_user(user_input) for a submitted form
AsyncStepUser ==
  /\ flow_pc = "form"
  /\ submits < MaxSubmits
  /\ \E host \in Hosts, dev \in DeviceStates :
       LET v    == ValidateConnection(dev)
           ok   == ConnectionOk(v)
           errs == ErrorsAfterTry(v)
           res  == StepResult(host, ok, errs, entries)
       IN /\ user_input' = Input(host)
          /\ device' = dev
          /\ validation' = v
          /\ connection_ok' = ok
          /\ errors' = ErrorsAfterIf(ok, errs)
          /\ flow_result' = res
          /\ flowLog' = Append(flowLog, res)
          /\ entries' = IF res.type = "create_entry" THEN entries \cup {host} ELSE entries
          /\ flow_pc' = IF res.type = "form" THEN "form" ELSE "done"
  /\ submits' = submits + 1
  /\ UNCHANGED << apiVars, pollVars >>

FlowNext ==
  \/ ShowForm
  \/ AsyncStepUser

FlowInit == image = 1 /\ ApiStart /\ PollStart /\ FlowStart /\ entries \in EntrySamples

FlowSpec == FlowInit /\ [][FlowNext]_vars

(* ====================== properties of get_phy_rates =================== *)
N == Len(nodeId)
LogIdx == 1..Len(cellLog)
ReturnedDict == pc = "returned" /\ result.kind = "dict"
\* the logged cells of row i left of column j
RowBefore(i, j) == {k \in LogIdx : cellLog[k].i = i /\ cellLog[k].j < j}
\* no cell of row i up to and including column j has failed
CleanUpTo(i, j) == \A k \in LogIdx :
  (cellLog[k].i = i /\ cellLog[k].j <= j) => cellLog[k].ok

(* The decode of a row over the untruncated register image FmrFull: what    *)
(* each cell is when no read runs past the end of the dump.                 *)
RefVer(i, j) ==
  LET rowVer == NodeVersion(nodeId[i + 1])
      colVer == NodeVersion(nodeId[j + 1])
  IN  FmrPayloadVer(ncMocaVer, Min(rowVer, ncMocaVer), rowVer, colVer)

\* the cells of row i from column j on, decoded from dump fmr with the
\* cursor at readIndx / alignmentFlag: the sequence of [ok, rate] appended to acc
RECURSIVE RefRow(_, _, _, _, _, _)
RefRow(fmr, i, j, idx, flag, acc) ==
  IF j >= Len(nodeId) THEN acc
  ELSE CHOOSE r \in
         { RefRow(fmr, i, j + 1, d.readIndx, IF d.ok THEN ~flag ELSE flag,
                  Append(acc, [ok |-> d.ok,
                               rate |-> IF d.ok
                                        THEN RateN(d.gapN, d.ofdmN, d.gapVL, RefVer(i, j))
                                        ELSE 0])) :
           d \in {DecodeFields(fmr, idx, flag, RefVer(i, j),
                    [gapN |-> 0, gapVL |-> 0, ofdmN |-> 0, ofdmVL |-> 0])} } : TRUE

\* rates of row i as decoded from the untruncated image of its node
RefRates(i) ==
  CHOOSE r \in { RefRow(fmr, i, 0, 10, TRUE, << >>) :
                 fmr \in {FmrFull(image, nodeId[i + 1])} } : TRUE

\* C1: a cell whose decode fails is 0 and stays 0; the cells are decoded in
\* row-major order without a gap, so a failure aborts neither the row nor the
\* matrix (a returned matrix has all N*N cells decoded); and in the returned
\* matrix every cell with no failure at or before it in its row has the value
\* the decode of the untruncated dump gives it, whatever failed later in the
\* row or in other rows.
C1_PerCellIsolation ==
  /\ \A k \in LogIdx :
       /\ cellLog[k].i = (k - 1) \div N /\ cellLog[k].j = (k - 1) % N
       /\ ~cellLog[k].ok => rateNper[cellLog[k].i][cellLog[k].j] = 0
  /\ ReturnedDict =>
       /\ Len(cellLog) = N * N
       /\ \A i \in 0..(N - 1) :
            \E ref \in {RefRates(i)} :
              \A j \in 0..(N - 1) :
                CleanUpTo(i, j) => result.rates[i][j] = ref[j + 1].rate

\* nodes [0,3]: node 0's dump holds its own block but not node 3's; the call
\* returns with rates[0][0] non-zero and rates[0][1] = 0, and row 1 decoded
C1_Witness ==
  /\ ReturnedDict /\ nodeId = << 0, 3 >>
  /\ cellLog[1].ok /\ ~cellLog[2].ok
  /\ result.rates[0][0] > 0 /\ result.rates[0][1] = 0
  /\ cellLog[3].ok /\ cellLog[4].ok /\ result.rates[1][1] > 0

\* C2: every cell of the returned rates and every entry of the returned
\* gcd_rates is a non-negative integer, as is every cell while it is decoded
\* (VL grid included), every denominator a decoded cell divides by is
\* strictly positive, and once the decode has started the call never ends
\* with an exception, whatever the lengths of the FMR dumps.
C2_NonNegative ==
  /\ ReturnedDict =>
       \A i \in NodeRange :
         /\ result.gcd_rates[i] \in Nat
         /\ \A j \in NodeRange : result.rates[i][j] \in Nat
  /\ \A k \in LogIdx :
       /\ rateNper[cellLog[k].i][cellLog[k].j] \in Nat
       /\ rateVlper[cellLog[k].i][cellLog[k].j] \in Nat
       /\ rateGcd[cellLog[k].i] \in Nat
  /\ \A k \in LogIdx : cellLog[k].ok =>
       /\ Den100(cellLog[k].gapN) > 0 /\ Den50(cellLog[k].gapN) > 0
       /\ Den100(cellLog[k].gapVL) > 0
       /\ cellLog[k].gapN \in 0..255 /\ cellLog[k].gapVL \in 0..255
  /\ (Len(cellLog) > 0 \/ pc = "cell") => pc # "raised"

\* a returned matrix over dumps of three different lengths, with a cell read
\* from a word whose top bit is set
C2_Witness ==
  /\ ReturnedDict /\ N = 3
  /\ Cardinality({Len(fmrInfo[nodeId[k]].data) : k \in 1..N}) = 3
  /\ \E k \in LogIdx : cellLog[k].ok /\ cellLog[k].ofdmN >= 32768
  /\ \E k \in LogIdx : ~cellLog[k].ok

\* C3 as stated: with ncMocaVer < 0x20 the effective version of a cell is
\* min(row version, column version), else the row version.
C3_Original ==
  \A k \in LogIdx :
    cellLog[k].ver = IF ncMocaVer < 32
                     THEN Min(cellLog[k].rowVer, cellLog[k].colVer)
                     ELSE cellLog[k].rowVer

\* C3 amended: with ncMocaVer < 0x20 the effective version of a cell is the
\* minimum of the row version, the column version and ncMocaVer; with
\* ncMocaVer >= 0x20 it is the row version, whatever the column version.
C3_EffectiveVersion ==
  \A k \in LogIdx :
    cellLog[k].ver = IF ncMocaVer < 32
                     THEN Min(Min(cellLog[k].rowVer, cellLog[k].colVer), ncMocaVer)
                     ELSE cellLog[k].rowVer

\* a cell of a 1.x network whose NC is older than both its row and its column
\* node, and a cell of a 2.x network whose column node is older than its row
C3_Witness ==
  \E k \in LogIdx :
    \/ ncMocaVer < 32 /\ ncMocaVer < cellLog[k].rowVer /\ ncMocaVer < cellLog[k].colVer
    \/ ncMocaVer >= 32 /\ cellLog[k].colVer < cellLog[k].rowVer

\* C4 as stated: in a row the flag seen by column j is true exactly for even
\* j, whatever the dump, and the cursor never decreases from column to column.
C4_Original ==
  \A k \in LogIdx :
    /\ cellLog[k].alignmentFlag = (cellLog[k].j % 2 = 0)
    /\ (k > 1 /\ cellLog[k - 1].i = cellLog[k].i) =>
         cellLog[k].readIndx >= cellLog[k - 1].readIndx

\* C4 amended: in a row the flag starts true and is flipped by every column
\* that decodes successfully and left alone by a column that fails, so the
\* flag seen by column j is true iff an even number of the columns before j
\* decoded; the cursor never decreases from column to column.
C4_AlignmentAndCursor ==
  /\ \A k \in LogIdx :
       /\ cellLog[k].alignmentFlag =
            (Cardinality({m \in RowBefore(cellLog[k].i, cellLog[k].j) : cellLog[m].ok}) % 2 = 0)
       /\ (k > 1 /\ cellLog[k - 1].i = cellLog[k].i) =>
            cellLog[k].readIndx >= cellLog[k - 1].readIndx
  /\ (pc = "cell" /\ jd_index > 0) =>
       /\ readIndx >= cellLog[Len(cellLog)].readIndx
       /\ alignmentFlag = (cellLog[Len(cellLog)].alignmentFlag # cellLog[Len(cellLog)].ok)

\* a row whose first column decodes, whose second fails, and whose third
\* therefore sees the flag the second saw
C4_Witness ==
  \E k \in LogIdx :
    /\ k + 2 \in LogIdx
    /\ cellLog[k].j = 0 /\ cellLog[k + 2].i = cellLog[k].i
    /\ cellLog[k].ok /\ ~cellLog[k + 1].ok
    /\ cellLog[k + 1].alignmentFlag = FALSE /\ cellLog[k + 2].alignmentFlag = FALSE
    /\ cellLog[k + 1].readIndx > cellLog[k].readIndx

\* C5 as stated: the returned rates is an N x N grid and gcd_rates has N entries.
C5_Original ==
  ReturnedDict =>
    /\ DOMAIN result.rates = 0..(N - 1)
    /\ \A i \in DOMAIN result.rates : DOMAIN result.rates[i] = 0..(N - 1)
    /\ DOMAIN result.gcd_rates = 0..(N - 1)

\* C5 amended: whatever the number N of active nodes (1..16), the returned
\* rates is a MAX_NUM_NODES x MAX_NUM_NODES (16 x 16) grid and gcd_rates has
\* MAX_NUM_NODES (16) entries; nodes has N entries and the decoded cells are
\* those with both indices below N.
C5_ResultShape ==
  ReturnedDict =>
    /\ Len(result.nodes) = N /\ N \in 1..MAX_NUM_NODES
    /\ DOMAIN result.rates = 0..15
    /\ \A i \in DOMAIN result.rates : DOMAIN result.rates[i] = 0..15
    /\ DOMAIN result.gcd_rates = 0..15
    /\ {<< cellLog[k].i, cellLog[k].j >> : k \in LogIdx} = (0..(N - 1)) \X (0..(N - 1))

\* a matrix returned for three active nodes
C5_Witness == ReturnedDict /\ N = 3 /\ result.nodes = << 0, 3, 15 >>

\* the topology is established: the local-info dump has its 13 words and the
\* NC node it names is an active node
TopologyEstablished ==
  /\ ~LocalInfo.isNone /\ LocalInfoFault(LocalInfo.data) = 0
  /\ ncNodeID \in NodeRange /\ BitIsSet(nodeBitMask, ncNodeID)

\* C6: once the topology is established, a net-info dump of one active node
\* that lacks word 4, or an FMR dump that is too short or missing, does not
\* end the call with an exception: the call still completes.
C6_LocalFailureCompletes ==
  TopologyEstablished =>
    ~(/\ pc = "raised"
      /\ \/ exc.type = "IndexError" /\ exc.line \in {361, 365}
         \/ exc.type = "KeyError" /\ exc.line = 377)

\* C7: without a CSRF cookie after the page load the call returns None (or the
\* load itself raised) with no POST issued; a local-info dump of fewer than
\* 13 words ends the call with an exception right there, no further request
\* and no result; and a dictionary is returned only after both were there.
C7_NoTopologyNoResult ==
  /\ (pc # "get_page" /\ ~csrf_token) =>
       /\ pc \in {"returned", "raised"}
       /\ result \in {ReturnedNone, NoResult}
       /\ pc = "returned" => result = ReturnedNone
       /\ \A r \in 1..Len(reqLog) : reqLog[r].method # "POST"
  /\ (~LocalInfo.isNone /\ Len(LocalInfo.data) < 13) =>
       /\ pc = "raised" /\ exc.type = "IndexError"
       /\ result = NoResult /\ Len(reqLog) = 2
  /\ result.kind = "dict" =>
       csrf_token /\ ~LocalInfo.isNone /\ Len(LocalInfo.data) >= 13

\* a local-info dump of 12 words: the read of word 12 raised
C7_Witness ==
  /\ ~LocalInfo.isNone /\ Len(LocalInfo.data) = 12
  /\ pc = "raised" /\ exc = Raise("IndexError", 346)

\* the primary rate of the claim, written out, for a decoded cell
PrimaryRateOf(e) ==
  IF e.gapN = 0 THEN 0
  ELSE IF e.gapVL = 0 /\ e.ver = 32
       THEN (1200 * e.ofdmN) \div ((256 + (e.gapN * 2 + 10)) * 26)
       ELSE (3900 * e.ofdmN) \div ((512 + (e.gapN + 10) * 2) * 46)

\* every decoded cell holds PrimaryRateOf; gap 5, ofdm 500 on the 100 MHz
\* profile gives 78; effective 0x20, gapSecondary 0, gap 2, ofdm 300 gives example2
PrimaryRateHolds(example2) ==
  \A k \in LogIdx : cellLog[k].ok =>
    LET e == cellLog[k]
        rate == rateNper[e.i][e.j]
    IN  /\ rate = PrimaryRateOf(e)
        /\ (e.gapN = 5 /\ e.ofdmN = 500 /\ ~(e.gapVL = 0 /\ e.ver = 32)) => rate = 78
        /\ (e.gapN = 2 /\ e.ofdmN = 300 /\ e.gapVL = 0 /\ e.ver = 32) => rate = example2

\* C8 as stated: the primary rate formula, with the second example giving 24.
C8_Original == PrimaryRateHolds(24)

\* C8 amended: the primary rate of a decoded cell is 0 if gapPrimary = 0; else
\* (1200*ofdmPrimary) div ((256 + (gapPrimary*2+10))*26) if gapSecondary = 0
\* and the effective version is 0x20; else
\* (3900*ofdmPrimary) div ((512 + (gapPrimary+10)*2)*46).  Gap 5, ofdm 500 at
\* 100 MHz gives 78; effective 0x20, gapSecondary 0, gap 2, ofdm 300 gives 51.
C8_PrimaryRate == PrimaryRateHolds(51)

\* both examples decoded in one matrix, and a 1.x cell on the 100 MHz profile
C8_Witness ==
  /\ \E k \in LogIdx : /\ cellLog[k].ok /\ cellLog[k].ver = 37
                       /\ cellLog[k].gapN = 5 /\ cellLog[k].ofdmN = 500
                       /\ rateNper[cellLog[k].i][cellLog[k].j] = 78
  /\ \E k \in LogIdx : /\ cellLog[k].ok /\ cellLog[k].ver = 32 /\ cellLog[k].gapVL = 0
                       /\ cellLog[k].gapN = 2 /\ cellLog[k].ofdmN = 300
                       /\ rateNper[cellLog[k].i][cellLog[k].j] = 51

\* C9: a decoded cell with gapPrimary 0 has primary rate 0 and one with
\* gapSecondary 0 has secondary rate 0, whatever the OFDM counts; a cell that
\* failed to decode has both rates 0.
C9_ZeroGapZeroRate ==
  \A k \in LogIdx :
    LET e == cellLog[k] IN
    /\ (e.ok /\ e.gapN = 0) => rateNper[e.i][e.j] = 0
    /\ (e.ok /\ e.gapVL = 0) => rateVlper[e.i][e.j] = 0
    /\ ~e.ok => (rateNper[e.i][e.j] = 0 /\ rateVlper[e.i][e.j] = 0)

\* a 2.x cell with both gaps 0 and both OFDM counts non-zero, and in the same
\* matrix a cell with a non-zero secondary rate
C9_Witness ==
  /\ \E k \in LogIdx : /\ cellLog[k].ok /\ Is2xLayout(cellLog[k].ver)
                       /\ cellLog[k].gapN = 0 /\ cellLog[k].ofdmN > 0
                       /\ cellLog[k].gapVL = 0 /\ cellLog[k].ofdmVL > 0
  /\ \E k \in LogIdx : cellLog[k].ok /\ rateVlper[cellLog[k].i][cellLog[k].j] > 0
                       /\ rateNper[cellLog[k].i][cellLog[k].j] > 0

\* the diagonal cell of row i, if it is decoded
DiagonalOf(i) == {k \in LogIdx : cellLog[k].i = i /\ cellLog[k].row = cellLog[k].col}

\* C10: gcd_rates[i] is 0 until the diagonal cell of row i is decoded and is
\* not touched by any other cell; from a diagonal cell that decodes it is
\* (1200*ofdmPrimary) div ((256 + (gapPrimary*2+10))*26) when the high nibble
\* of the row node's version is 1, (3900*ofdmPrimary) div
\* ((512 + (gapPrimary+10)*2)*46) when it is 2, with no zero-gap shortcut, and
\* 0 for any other nibble; it is 0 when the diagonal cell fails to decode.
C10_GcdRate ==
  \A i \in NodeRange :
    /\ DiagonalOf(i) = {} => rateGcd[i] = 0
    /\ \A k \in DiagonalOf(i) :
         LET e == cellLog[k]
             nibble == (e.rowVer \div 16) % 16
         IN  rateGcd[i] =
               IF ~e.ok THEN 0
               ELSE IF nibble = 1
                    THEN (1200 * e.ofdmN) \div ((256 + (e.gapN * 2 + 10)) * 26)
               ELSE IF nibble = 2
                    THEN (3900 * e.ofdmN) \div ((512 + (e.gapN + 10) * 2) * 46)
               ELSE 0

\* a returned matrix with a diagonal cell of gap 0 whose primary rate is 0 and
\* whose gcd rate is not, one of a version 0x30 node (gcd 0 from a non-zero
\* OFDM count), and one that failed to decode
C10_Witness ==
  /\ ReturnedDict
  /\ \E i \in 0..(N - 1) : \E k \in DiagonalOf(i) :
       cellLog[k].ok /\ cellLog[k].gapN = 0 /\ result.gcd_rates[i] > 0
       /\ result.rates[i][i] = 0
  /\ \E i \in 0..(N - 1) : \E k \in DiagonalOf(i) :
       cellLog[k].ok /\ cellLog[k].rowVer = 48 /\ cellLog[k].ofdmN > 0
       /\ result.gcd_rates[i] = 0
  /\ \E i \in 0..(N - 1) : \E k \in DiagonalOf(i) : ~cellLog[k].ok

(* ------------- the register layout as the specification gives it ------- *)
\* the unsigned value of bits a..b (0 = least significant) of a parsed word
Bits(v, a, b) ==
  IF b < 16 THEN (v.lo \div (2 ^ a)) % (2 ^ (b - a + 1))
  ELSE IF a >= 16 THEN (v.hi \div (2 ^ (a - 16))) % (2 ^ (b - a + 1))
  ELSE (v.lo \div (2 ^ a)) + (2 ^ (16 - a)) * (v.hi % (2 ^ (b - 15)))

\* the word of the row's dump at offset off from the cursor the cell started at
CellWord(e, off) == IntFromHex(At(fmrInfo[e.row].data, e.readIndx + off))

\* how far the cell moved the cursor
Advance(e) == e.nextIndx - e.readIndx
\* the cursor moved as the two-profile / the single-profile layout moves it
MovedAs2x(e) == Advance(e) = IF e.alignmentFlag THEN 1 ELSE 2
MovedAs1x(e) == Advance(e) = IF e.alignmentFlag THEN 0 ELSE 1

\* the fields of a decoded cell under each layout
Fields2x(e) ==
  CHOOSE r \in
    { IF e.alignmentFlag
      THEN [gapN |-> Bits(w[1], 24, 31), gapVL |-> Bits(w[1], 16, 23),
            ofdmN |-> Bits(w[1], 0, 15), ofdmVL |-> Bits(w[2], 16, 31)]
      ELSE [gapN |-> Bits(w[1], 8, 15), gapVL |-> Bits(w[1], 0, 7),
            ofdmN |-> Bits(w[2], 16, 31), ofdmVL |-> Bits(w[2], 0, 15)] :
      w \in {<< CellWord(e, 0), CellWord(e, 1) >>} } : TRUE

Fields1x(e) ==
  CHOOSE r \in
    { IF e.alignmentFlag
      THEN [gapN |-> Bits(w, 27, 31), gapVL |-> 0, ofdmN |-> Bits(w, 16, 26), ofdmVL |-> 0]
      ELSE [gapN |-> Bits(w, 11, 15), gapVL |-> 0, ofdmN |-> Bits(w, 0, 10), ofdmVL |-> 0] :
      w \in {CellWord(e, 0)} } : TRUE

FieldsOf(e) == [gapN |-> e.gapN, gapVL |-> e.gapVL, ofdmN |-> e.ofdmN, ofdmVL |-> e.ofdmVL]

\* the cell decoded last: every cell of every matrix is the last one in the
\* state its decode leads to, and the dumps and versions it was decoded from
\* do not change afterwards
HasLast == Len(cellLog) > 0
Last == cellLog[Len(cellLog)]

\* C11: a decoded cell is read with the two-profile (MoCA 2.x) layout, two
\* words and the cursor moved by 1 or 2, iff its effective version is exactly
\* 0x20 or 0x25; with every other effective version (0x21-0x24 and 0x1x
\* included) it is read with the single-profile (MoCA 1.x) layout, one word and
\* the cursor moved by 0 or 1, and gapSecondary and ofdmSecondary are 0.
C11_VersionRouting ==
  (HasLast /\ Last.ok) =>
    \E e \in {Last} :
      /\ MovedAs2x(e) <=> e.ver \in {32, 37}
      /\ MovedAs1x(e) <=> e.ver \notin {32, 37}
      /\ e.ver \in {32, 37} => FieldsOf(e) = Fields2x(e)
      /\ e.ver \notin {32, 37} =>
           /\ FieldsOf(e) = Fields1x(e)
           /\ e.gapVL = 0 /\ e.ofdmVL = 0
           /\ rateVlper[e.i][e.j] = 0

\* one matrix with a row of version 0x22 read as 1.x from a word whose 2.x
\* reading has a non-zero secondary gap, a row of 0x25 read as 2.x and a row
\* of 0x10 read as 1.x
C11_Witness ==
  /\ ReturnedDict
  /\ \E k \in LogIdx : /\ cellLog[k].ok /\ cellLog[k].ver = 34
                       /\ cellLog[k].alignmentFlag
                       /\ Bits(CellWord(cellLog[k], 0), 16, 23) > 0
                       /\ cellLog[k].gapN > 0
  /\ \E k \in LogIdx : cellLog[k].ok /\ cellLog[k].ver = 37 /\ cellLog[k].gapVL > 0
  /\ \E k \in LogIdx : cellLog[k].ok /\ cellLog[k].ver = 16

\* the cell decoded before the last one
Prev == cellLog[Len(cellLog) - 1]

\* C12: the first column of every row is decoded with the cursor at word 10
\* and the alignment flag true, however the previous row ended; every later
\* column of the row is decoded with the cursor and the flag exactly as the
\* column before it left them.
C12_RowReset ==
  /\ (pc = "cell" /\ jd_index = 0) => (readIndx = 10 /\ alignmentFlag = TRUE)
  /\ (HasLast /\ Last.j = 0) => (Last.readIndx = 10 /\ Last.alignmentFlag = TRUE)
  /\ (HasLast /\ Last.j > 0) =>
       /\ Prev.i = Last.i /\ Prev.j = Last.j - 1
       /\ Last.readIndx = Prev.nextIndx
       /\ Last.alignmentFlag = Prev.nextFlag
  /\ (pc = "cell" /\ jd_index > 0) =>
       /\ Last.i = id_index /\ Last.j = jd_index - 1
       /\ readIndx = Last.nextIndx /\ alignmentFlag = Last.nextFlag

\* the first column of a second or third row, decoded from word 10 with the
\* flag true after a row that ended on a failed column with the cursor
\* beyond word 10 and the flag false; and in that earlier row a column that
\* started beyond word 10
C12_Witness ==
  /\ HasLast /\ Last.j = 0 /\ Last.i > 0
  /\ ~Prev.ok /\ Prev.nextIndx > 10 /\ Prev.nextFlag = FALSE
  /\ Prev.readIndx > 10
  /\ Last.readIndx = 10 /\ Last.alignmentFlag = TRUE

\* the node ids whose bit is set in word 12 of the local-info dump
ActiveSet ==
  CHOOSE S \in { {n \in 0..15 : Bits(m, n, n) = 1} :
                 m \in {IntFromHex(At(LocalInfo.data, 12))} } : TRUE

\* the version byte of node n as its net-info dump gives it
VersionByte(n) == Bits(IntFromHex(At(netInfo[n].data, 4)), 0, 7)

\* C13: the node list is strictly ascending and, when the net-info loop is
\* over and when the matrix is returned, holds exactly the ids n in 0..15 whose bit n is set in word 12 of the
\* local-info dump (while the loop runs, those below the loop variable); the
\* returned nodes is that list; and the cell at row index i, column index j
\* is decoded from the dump and version of nodes[i] against the version of
\* nodes[j], the diagonal (the cell that sets gcd_rates[i]) being j = i.
C13_NodeList ==
  /\ \A k \in 1..(N - 1) : nodeId[k] < nodeId[k + 1]
  /\ (pc \in {"net_info", "nc_ver"} \/ ReturnedDict) =>
       \E active \in {ActiveSet} :
         /\ {nodeId[k] : k \in 1..N} =
              IF pc = "net_info" THEN {n \in active : n < node_id} ELSE active
         /\ ReturnedDict => (result.nodes = nodeId /\ Len(result.nodes) = Cardinality(active))
  /\ HasLast =>
       \E e \in {Last} :
         /\ e.i \in 0..(N - 1) /\ e.j \in 0..(N - 1)
         /\ e.row = nodeId[e.i + 1] /\ e.col = nodeId[e.j + 1]
         /\ e.rowVer = VersionByte(nodeId[e.i + 1])
         /\ e.colVer = VersionByte(nodeId[e.j + 1])
         /\ (e.row = e.col) <=> (e.i = e.j)

\* bitmask 0x8009: nodes [0, 3, 15] returned, the last cell decoded being the
\* diagonal of node 15 at index 2 with a gcd rate
C13_Witness ==
  /\ ReturnedDict /\ ActiveSet = {0, 3, 15} /\ result.nodes = << 0, 3, 15 >>
  /\ Last.i = 2 /\ Last.j = 2 /\ Last.row = 15 /\ Last.ok
  /\ result.gcd_rates[2] > 0

\* the FMR loop is running, has just ended, or was ended by an exception
\* (ncMocaVer is assigned right before the loop)
FmrRequestsSettled ==
  pc = "fmr_info" \/ (pc = "row" /\ id_index = 0) \/ (pc = "raised" /\ ncMocaVer # Unset)

\* the NC node id as the local-info dump gives it, and its version byte
NcId == Bits(IntFromHex(At(LocalInfo.data, 1)), 0, 7)

\* C14: the FMR requests are issued after the net-info requests, one for each
\* node of the node list in list order, the k-th with payload
\* (1 << nodes[k], formatVersion) where formatVersion is 1 if
\* min(ncMocaVer, version byte of nodes[k]) < 0x20 and 2 otherwise; when the
\* decode starts every active node has exactly one FMR request and no other
\* node has one.
C14_FmrRequests ==
  /\ pc \in {"get_page", "local_info", "net_info", "nc_ver"} =>
       \A r \in 1..Len(reqLog) : reqLog[r].endpoint # "fmrInfo"
  /\ (FmrRequestsSettled /\ Len(reqLog) > 2 + N) =>
       \E ncVer \in {VersionByte(NcId)} :
         \A r \in (3 + N)..Len(reqLog) :
           \E node \in {nodeId[r - 2 - N]} :
             /\ r <= 2 + 2 * N
             /\ reqLog[r].endpoint = "fmrInfo" /\ reqLog[r].method = "POST"
             /\ reqLog[r].data[1] = 2 ^ node
             /\ reqLog[r].data[2] =
                  IF ncVer < 32 \/ VersionByte(node) < 32 THEN 1 ELSE 2
  /\ (pc \in {"row", "cell"} \/ ReturnedDict) =>
       /\ Len(reqLog) = 2 + 2 * N
       /\ \A r \in 1..(2 + N) : reqLog[r].endpoint # "fmrInfo"
  /\ (pc = "row" /\ id_index = 0) =>
       {reqLog[r].data[1] : r \in (3 + N)..Len(reqLog)} = {2 ^ n : n \in ActiveSet}

\* three active nodes, the decode about to start: a 2.x NC, one request with
\* format version 1 for a 1.x node and one with format version 2
C14_Witness ==
  /\ pc = "row" /\ id_index = 0 /\ N = 3
  /\ VersionByte(NcId) >= 32
  /\ reqLog[6].data = << 1, 1 >>
  /\ reqLog[8].data = << 32768, 2 >>

\* the columns of the last cell's row before it all decoded, with the
\* two-profile layout (two = TRUE) or all with the single-profile one
RowSoFar(two) ==
  \A k \in (Len(cellLog) - Last.j)..(Len(cellLog) - 1) :
    cellLog[k].ok /\ ((cellLog[k].ver \in {32, 37}) = two)

\* C16: a cell that decodes moves the cursor by 1 (flag true) or 2 (flag
\* false) under the 2.x layout and by 0 (flag true) or 1 (flag false) under
\* the 1.x layout, and flips the flag in all four cases; so in a row whose
\* columns so far all decoded, column j starts at word
\* 10 + 3*(j div 2) + (j mod 2) if they all used the 2.x layout and at word
\* 10 + (j div 2) if they all used the 1.x layout.
C16_CursorTransition ==
  HasLast =>
    \E e \in {Last} :
      /\ e.ok =>
           /\ e.nextFlag = ~e.alignmentFlag
           /\ e.nextIndx - e.readIndx =
                IF e.ver \in {32, 37} THEN (IF e.alignmentFlag THEN 1 ELSE 2)
                ELSE (IF e.alignmentFlag THEN 0 ELSE 1)
      /\ RowSoFar(TRUE) => e.readIndx = 10 + 3 * (e.j \div 2) + (e.j % 2)
      /\ RowSoFar(FALSE) => e.readIndx = 10 + (e.j \div 2)

\* the third column of an all-2.x row decoded from word 13 on, in a matrix
\* whose first row is all 1.x with its third column decoded at word 11, and
\* an unaligned 2.x cell moving the cursor by 2
C16_Witness ==
  /\ HasLast /\ Last.ok /\ Last.j = 2 /\ Last.ver = 37
  /\ Last.readIndx = 13 /\ Last.nextIndx = 14 /\ RowSoFar(TRUE)
  /\ Prev.ok /\ Prev.readIndx = 11 /\ Prev.nextIndx = 13 /\ ~Prev.alignmentFlag
  /\ cellLog[3].ok /\ cellLog[3].ver \notin {32, 37} /\ cellLog[3].j = 2
  /\ cellLog[3].readIndx = 11 /\ cellLog[3].nextIndx = 11
  /\ cellLog[2].ok /\ cellLog[2].readIndx = 10 /\ cellLog[2].nextIndx = 11

\* C17: the fields of a decoded cell are, for every word: 2.x aligned,
\* gapPrimary = bits 24-31, gapSecondary = bits 16-23, ofdmPrimary = bits 0-15
\* of the first word and ofdmSecondary = bits 16-31 of the second; 2.x
\* unaligned, gapPrimary = bits 8-15, gapSecondary = bits 0-7 of the first
\* word and ofdmPrimary = bits 16-31, ofdmSecondary = bits 0-15 of the second;
\* 1.x aligned, gapPrimary = bits 27-31 and ofdmPrimary = bits 16-26; 1.x
\* unaligned, gapPrimary = bits 11-15 and ofdmPrimary = bits 0-10, the
\* secondaries being 0; so gaps are in 0..255 and OFDM counts in 0..65535.
C17_BitFields ==
  (HasLast /\ Last.ok) =>
    \E e \in {Last} :
      /\ FieldsOf(e) = IF e.ver \in {32, 37} THEN Fields2x(e) ELSE Fields1x(e)
      /\ e.gapN \in 0..255 /\ e.gapVL \in 0..255
      /\ e.ofdmN \in 0..65535 /\ e.ofdmVL \in 0..65535

\* the word 0x80000800 read unaligned with the 2.x layout before 0xFFFF8000:
\* gaps 8 and 0, OFDM counts 65535 and 32768
C17_Witness ==
  /\ HasLast /\ Last.ok /\ Last.ver = 37 /\ ~Last.alignmentFlag
  /\ At(fmrInfo[0].data, 0) = Hex8(32768, 2048)
  /\ At(fmrInfo[0].data, 1) = Hex8(65535, 32768)
  /\ FieldsOf(Last) = [gapN |-> 8, gapVL |-> 0, ofdmN |-> 65535, ofdmVL |-> 32768]

\* the request log is read when a request has just been issued or the call
\* has ended or is about to decode; it does not change while the cells are
\* decoded
RequestsSettled == pc \notin {"row", "cell"} \/ (pc = "row" /\ id_index = 0)

NetInfoRequests == {r \in 1..Len(reqLog) : reqLog[r].endpoint = "netInfo"}
FmrInfoRequests == {r \in 1..Len(reqLog) : reqLog[r].endpoint = "fmrInfo"}

\* C18: the requests of a call are, in this order, the GET of the phyRates
\* page, the local-info POST, the net-info POSTs in ascending node order and
\* the FMR POSTs in ascending node order, and nothing else; the first FMR
\* request comes after the net-info response of every active node has been
\* stored; and a cell is decoded only when the FMR response of every active
\* node has been stored, no request being issued from then on.
C18_RequestOrder ==
  /\ RequestsSettled =>
       /\ \A r \in 1..Len(reqLog) :
            /\ r = 1 => (reqLog[r].method = "GET" /\ reqLog[r].endpoint = "phyRates")
            /\ r = 2 => (reqLog[r].method = "POST" /\ reqLog[r].endpoint = "localInfo")
            /\ r >= 3 =>
                 /\ reqLog[r].method = "POST"
                 /\ reqLog[r].endpoint \in {"netInfo", "fmrInfo"}
            /\ r >= 4 =>
                 /\ reqLog[r - 1].endpoint = "fmrInfo" => reqLog[r].endpoint = "fmrInfo"
                 /\ reqLog[r - 1].endpoint = reqLog[r].endpoint =>
                      reqLog[r - 1].data[1] < reqLog[r].data[1]
       /\ (FmrInfoRequests # {} \/ pc \in {"nc_ver", "fmr_info", "row"}) =>
            /\ {reqLog[r].data[1] : r \in NetInfoRequests} = ActiveSet
            /\ \A n \in ActiveSet : ~netInfo[n].isNone
  /\ (pc = "cell" \/ HasLast) =>
       /\ Len(reqLog) = 2 + 2 * N
       /\ \A k \in 1..N : ~fmrInfo[nodeId[k]].isNone /\ ~netInfo[nodeId[k]].isNone

\* the eight requests of a call with nodes [0, 3, 15], in order, the first
\* cell about to be decoded
C18_Witness ==
  /\ pc = "cell" /\ ~HasLast
  /\ [r \in 1..Len(reqLog) |-> reqLog[r].endpoint] =
       << "phyRates", "localInfo", "netInfo", "netInfo", "netInfo",
          "fmrInfo", "fmrInfo", "fmrInfo" >>
  /\ [r \in 3..8 |-> reqLog[r].data[1]] = [r \in 3..8 |-> << 0, 3, 15, 1, 8, 32768 >>[r - 2]]

\* C19: a cell whose decode fails leaves the cursor and the alignment flag
\* exactly as they were before it, also when the first of the two word reads
\* of a 2.x block succeeded, and the next column of the row is decoded from
\* the same word with the same flag.
C19_FailureKeepsCursor ==
  /\ (HasLast /\ ~Last.ok) =>
       /\ Last.nextIndx = Last.readIndx
       /\ Last.nextFlag = Last.alignmentFlag
       /\ (pc = "cell" /\ jd_index > 0) =>
            (readIndx = Last.readIndx /\ alignmentFlag = Last.alignmentFlag)
  /\ (HasLast /\ Last.j > 0) =>
       (~Prev.ok => (Last.readIndx = Prev.readIndx /\ Last.alignmentFlag = Prev.alignmentFlag))

\* a 2.x column that failed on its second word after reading its first,
\* with the cursor beyond word 10 and the flag false, followed by a column
\* decoded from the same word with the same flag
C19_Witness ==
  /\ HasLast /\ Last.j = 2 /\ ~Prev.ok /\ Prev.ver \in {32, 37}
  /\ InRange(fmrInfo[Prev.row].data, Prev.readIndx)
  /\ ~InRange(fmrInfo[Prev.row].data, Prev.readIndx + 1)
  /\ Prev.readIndx = 11 /\ ~Prev.alignmentFlag
  /\ Prev.gapN = Bits(CellWord(Prev, 0), 8, 15)
  /\ Last.readIndx = 11 /\ ~Last.alignmentFlag

\* C20: in the returned structure, with N active nodes, every rates[i][j]
\* with i >= N or j >= N and every gcd_rates[i] with i >= N is 0; a cell is
\* decoded only at a row and a column position below N.
C20_OutsideIsZero ==
  /\ HasLast => (Last.i < N /\ Last.j < N)
  /\ ReturnedDict =>
       /\ \A i \in NodeRange : \A j \in NodeRange :
            (i >= N \/ j >= N) => (result.rates[i][j] = 0 /\ rateVlper[i][j] = 0)
       /\ \A i \in NodeRange : i >= N => result.gcd_rates[i] = 0

\* nodes [0, 3]: the four cells of the returned matrix and both gcd rates
\* are non-zero, everything at index 2 and above is 0, position 3 included
C20_Witness ==
  /\ ReturnedDict /\ result.nodes = << 0, 3 >>
  /\ \A i \in {0, 1} : \A j \in {0, 1} : result.rates[i][j] > 0
  /\ result.gcd_rates[0] > 0 /\ result.gcd_rates[1] > 0
  /\ result.rates[3][3] = 0 /\ result.gcd_rates[3] = 0

\* the four reads of the local-info dump (344-347) have completed
LocalInfoRead == ncNodeID # Unset

\* the NC id of local-info word 1 is a slot of the net-info table and its
\* bit is set in the bitmask of word 12
NcIsActive ==
  \E nc \in {NcId} : nc <= 15 /\ Bits(IntFromHex(At(LocalInfo.data, 12)), nc, nc) = 1

\* C21: whenever an FMR request is issued, a cell is decoded or the matrix is
\* returned, the NC id read from the low byte of local-info word 1 is an
\* active node; when that id is above 15 or its bit is not set in the
\* bitmask, the call never gets past the read of ncMocaVer: it ends with an
\* exception (an earlier failure of a net-info request or, once every active
\* node has answered, IndexError above 15 and TypeError for an inactive slot
\* at line 361), with no FMR request, no decoded cell, all-zero grids and no
\* returned matrix.
C21_NcIsActive ==
  IF ~LocalInfoRead
  THEN ~(pc \in {"fmr_info", "row", "cell"} \/ ReturnedDict \/ ncMocaVer # Unset \/ HasLast)
  ELSE \E active \in {NcIsActive} :
         active \/
           /\ pc \in {"net_info", "nc_ver", "raised"}
           /\ result = NoResult /\ ncMocaVer = Unset
           /\ FmrInfoRequests = {} /\ ~HasLast
           /\ rateNper = ZeroGrid /\ rateVlper = ZeroGrid /\ rateGcd = ZeroVector
           /\ (pc = "raised" /\ Len(nodeId) = Cardinality(ActiveSet)) =>
                exc = Raise(IF NcId > 15 THEN "IndexError" ELSE "TypeError", 361)

\* NC id 5 with bitmask 0x0009 (nodes 0 and 3): both net-info requests were
\* answered, the read of slot 5 raised TypeError, no FMR request was issued
C21_Witness ==
  /\ pc = "raised" /\ exc = Raise("TypeError", 361)
  /\ NcId = 5 /\ ActiveSet = {0, 3} /\ nodeId = << 0, 3 >>
  /\ Cardinality(NetInfoRequests) = 2 /\ FmrInfoRequests = {}
  /\ result = NoResult

(* ====================== properties of the poll cycle ================== *)
\* C15: _fetch_data ends either with the complete processed dictionary or,
\* whatever exception the fetch or the parse raised, with a single
\* UpdateFailed carrying no dictionary; between cycles the coordinator's data
\* is the dictionary of the last cycle that succeeded (nothing before the
\* first success), so a failed cycle leaves it unchanged and a later cycle's
\* success replaces it whatever failed before; and a sensor read between
\* cycles returns its key of that dictionary, None without one.
C15_PollFailure ==
  /\ fetch_result.kind \in {"none", "dict", "UpdateFailed"}
  /\ fetch_result.kind = "dict" =>
       /\ DOMAIN fetch_result.data = SensorKeys
       /\ last_good = Data(fetch_result.data)
  /\ fetch_result.kind = "UpdateFailed" =>
       /\ fetch_result.data = << >>
       /\ fetch_result.cause \in
            {"HTTPError", "ValueError", "KeyError", "IndexError"}
  /\ poll_pc = "idle" =>
       /\ coord_data = last_good
       /\ last_update_success = (fetch_result.kind # "UpdateFailed")
  /\ poll_pc = "fetched" =>
       (fetch_result.kind = "UpdateFailed" => coord_data = last_good)
  /\ coord_data.has => DOMAIN coord_data.data = SensorKeys
  /\ (poll_pc = "idle" /\ native_value.cycle = cycle /\ native_value.at = "idle"
        /\ native_value.key # "None") =>
       native_value.value =
         IF last_good.has THEN last_good.data[native_value.key] ELSE NoValue

\* a cycle that succeeded, then a cycle that failed, then a sensor read that
\* returns the value of the first
C15_Witness ==
  /\ poll_pc = "idle" /\ cycle = 2
  /\ fetch_result.kind = "UpdateFailed" /\ ~last_update_success
  /\ coord_data.has /\ coord_data.data["lof"].reading = 2
  /\ native_value.cycle = 2 /\ native_value.at = "idle" /\ native_value.key = "lof"
  /\ native_value.value = [reading |-> 2, key |-> "lof"]

(* ====================== properties of the config flow ================= *)
\* a submitted form has been handled by async_step_user
Submitted == user_input.given /\ validation.called

\* C22: when async_step_user has handled a submitted form: if the connection
\* validation raised an exception, the step returned the form with
\* errors['base'] = 'unknown'; if the step returned the form with
\* errors['base'] = 'cannot_connect', the validation ended without raising
\* and without success; and if the step created an entry, the validation
\* returned True.
C22_ErrorReporting ==
  Submitted =>
    /\ HasRaised(validation) =>
         (flow_result.type = "form" /\ flow_result.errors.base = "unknown")
    /\ (flow_result.type = "form" /\ flow_result.errors.base = "cannot_connect") =>
         (~HasRaised(validation) /\ validation.value = FALSE)
    /\ flow_result.type = "create_entry" =>
         (~HasRaised(validation) /\ validation.value = TRUE)

====
